---- MODULE Spec2Model ----
(***************************************************************************)
(* Model of the C# operations plugin (c-sharp-operations): the type        *)
(* resolver, the selection compiler, the operation compiler, the plugin    *)
(* entry point and the runtime behaviour of the C# text it generates.      *)
(*                                                                         *)
(* Text is modelled as sequences of one-character strings, so that         *)
(* pascalCase, endsWith, startsWith and concatenation are computed and     *)
(* not assumed.  Generated declarations are modelled structurally: a       *)
(* property is a record (JsonProperty tag, type text, name text), a class  *)
(* is a record (name text, body).  Indentation and line breaks are left    *)
(* out.                                                                    *)
(***************************************************************************)
EXTENDS Naturals, Sequences, FiniteSets, TLC

VARIABLES
    typeNode,         \* resolveFieldType: the TypeNode argument
    hasDefaultValue,  \* resolveFieldType: the hasDefaultValue argument
    fieldType,        \* resolveFieldType: the returned CSharpFieldType
    node,             \* visitor call: the definition or field node passed in
    called,           \* visitor call: the method that ran ("" before the call)
    result,           \* visitor call: what the method returned or threw
    config,           \* plugin: the raw plugin configuration
    documents,        \* plugin: the definitions of the combined document set
    buffers,          \* plugin: the accumulated declaration buffers
    _client,          \* generated client: the static field _client
    pc,               \* generated client: each caller's position in the getter
    endpoint,         \* generated client: each caller's local `endpoint`
    evalCount,        \* generated client: evaluations of the useDevIf predicate
    created,          \* generated client: GraphQLHttpClient instances constructed
    returned,         \* generated client: the instances each caller's accesses returned
    call,             \* generated request path: the arguments of the method call
    gqlRequest,       \* generated request path: the GraphQLHttpRequestWithHeaders built
    httpMessage       \* generated request path: the HttpRequestMessage produced

resolveVars == <<typeNode, hasDefaultValue, fieldType>>
visitorVars == <<node, called, result>>
pluginVars  == <<config, documents, buffers>>
clientVars  == <<_client, pc, endpoint, evalCount, created, returned>>
requestVars == <<call, gqlRequest, httpMessage>>
vars == <<typeNode, hasDefaultValue, fieldType, node, called, result,
          config, documents, buffers,
          _client, pc, endpoint, evalCount, created, returned,
          call, gqlRequest, httpMessage>>

\* The value of a variable that a specification does not use.
Idle == "idle"
\* JavaScript's undefined / C#'s null.
Null == "null"

(***************************************************************************)
(* Text                                                                    *)
(***************************************************************************)
Lowers == <<"a","b","c","d","e","f","g","h","i","j","k","l","m",
            "n","o","p","q","r","s","t","u","v","w","x","y","z">>
Uppers == <<"A","B","C","D","E","F","G","H","I","J","K","L","M",
            "N","O","P","Q","R","S","T","U","V","W","X","Y","Z">>
Digits == {"0","1","2","3","4","5","6","7","8","9"}

IsLower(c) == \E i \in 1..Len(Lowers) : Lowers[i] = c
IsUpper(c) == \E i \in 1..Len(Uppers) : Uppers[i] = c
IsDigit(c) == c \in Digits
IsAlnum(c) == IsLower(c) \/ IsUpper(c) \/ IsDigit(c)
toUpperCase(c) ==
    IF IsLower(c) THEN Uppers[CHOOSE i \in 1..Len(Lowers) : Lowers[i] = c] ELSE c
toLowerCase(c) ==
    IF IsUpper(c) THEN Lowers[CHOOSE i \in 1..Len(Uppers) : Uppers[i] = c] ELSE c

startsWith(s, p) == Len(s) >= Len(p) /\ SubSeq(s, 1, Len(p)) = p
endsWith(s, p) == Len(s) >= Len(p) /\ SubSeq(s, Len(s) - Len(p) + 1, Len(s)) = p
\* s.slice(n) for n >= 0 and s.slice(0, -n) for n > 0
sliceFrom(s, n) == SubSeq(s, n + 1, Len(s))
sliceDropLast(s, n) == SubSeq(s, 1, Len(s) - n)

RECURSIVE Flatten(_)
Flatten(ss) == IF ss = <<>> THEN <<>> ELSE Head(ss) \o Flatten(Tail(ss))

\* The words of change-case's no-case split: a break between a lower-case letter or
\* digit and an upper-case letter, a break before the last capital of a run of
\* capitals that a lower-case letter follows, and every run of other characters
\* is a separator.
RECURSIVE SplitWords(_, _, _)
SplitWords(s, i, cur) ==
    IF i > Len(s) THEN (IF cur = <<>> THEN <<>> ELSE <<cur>>)
    ELSE LET c == s[i]
             breakBefore ==
                 /\ cur # <<>>
                 /\ IsUpper(c)
                 /\ \/ IsLower(cur[Len(cur)]) \/ IsDigit(cur[Len(cur)])
                    \/ (IsUpper(cur[Len(cur)]) /\ i < Len(s) /\ IsLower(s[i + 1]))
         IN  IF ~IsAlnum(c)
               THEN (IF cur = <<>> THEN <<>> ELSE <<cur>>) \o SplitWords(s, i + 1, <<>>)
             ELSE IF breakBefore
               THEN <<cur>> \o SplitWords(s, i + 1, <<c>>)
             ELSE SplitWords(s, i + 1, Append(cur, c))

pascalCaseTransform(w, index) ==
    LET rest == [k \in 1..(Len(w) - 1) |-> toLowerCase(w[k + 1])]
    IN  IF index > 1 /\ IsDigit(w[1]) THEN <<"_", w[1]>> \o rest
        ELSE <<toUpperCase(w[1])>> \o rest

pascalCase(s) ==
    LET ws == SplitWords(s, 1, <<>>)
    IN  Flatten([k \in 1..Len(ws) |-> pascalCaseTransform(ws[k], k)])

(***************************************************************************)
(* The schema the operations are compiled against                          *)
(*                                                                         *)
(*   scalar Date                                                           *)
(*   enum user_role { ADMIN GUEST }                                        *)
(*   input UserFilter { role: user_role  ids: [ID!] }                      *)
(*   interface Node { id: ID! }                                            *)
(*   type Address { id: ID!  city: String }                                *)
(*   type User implements Node {                                           *)
(*     id: ID!  name: String  age: Int!  role: user_role!  born: Date      *)
(*     address: Address  children: [User]  users: [User!]!  node: Node }   *)
(*   type Query { user: User  users: [User!]!  address: Address            *)
(*                children: [User]  node: Node  name: String }             *)
(*   type Mutation { user: User }                                          *)
(*                                                                         *)
(* There is no Subscription type.                                          *)
(***************************************************************************)
nID == <<"I","D">>
nString == <<"S","t","r","i","n","g">>
nInt == <<"I","n","t">>
nDate == <<"D","a","t","e">>
nUserRole == <<"u","s","e","r","_","r","o","l","e">>
nUserFilter == <<"U","s","e","r","F","i","l","t","e","r">>
nNode == <<"N","o","d","e">>
nAddress == <<"A","d","d","r","e","s","s">>
nUser == <<"U","s","e","r">>
nQuery == <<"Q","u","e","r","y">>
nMutation == <<"M","u","t","a","t","i","o","n">>

fId == <<"i","d">>
fName == <<"n","a","m","e">>
fAge == <<"a","g","e">>
fRole == <<"r","o","l","e">>
fBorn == <<"b","o","r","n">>
fCity == <<"c","i","t","y">>
fUser == <<"u","s","e","r">>
fUsers == <<"u","s","e","r","s">>
fAddress == <<"a","d","d","r","e","s","s">>
fChildren == <<"c","h","i","l","d","r","e","n">>
fNode == <<"n","o","d","e">>

sString == <<"s","t","r","i","n","g">>
sInt == <<"i","n","t">>
sObject == <<"o","b","j","e","c","t">>
sList == <<"L","i","s","t">>
sResult == <<"R","e","s","u","l","t">>
sRequest == <<"R","e","q","u","e","s","t">>
sPayload == <<"P","a","y","l","o","a","d">>
sGet == <<"G","e","t">>

\* A TypeNode: the NonNullType / ListType layers from the outermost to the innermost,
\* around a NamedType.
Named(n) == [wrap |-> <<>>, name |-> n]
ListOf(t) == [wrap |-> <<"ListType">> \o t.wrap, name |-> t.name]
NonNull(t) == [wrap |-> <<"NonNullType">> \o t.wrap, name |-> t.name]
kindOf(t) == IF t.wrap = <<>> THEN "NamedType" ELSE t.wrap[1]
innerOf(t) == [wrap |-> Tail(t.wrap), name |-> t.name]

\* GraphQLSchema.getType followed by isScalarType / isInputObjectType / isEnumType
schemaKind(n) ==
    CASE n \in {nID, nString, nInt, nDate} -> "scalar"
      [] n = nUserRole -> "enum"
      [] n = nUserFilter -> "input"
      [] n = nNode -> "interface"
      [] n \in {nAddress, nUser, nQuery, nMutation} -> "object"
      [] OTHER -> Null

\* The OBJECT_TYPE_DEFINITION nodes of the schema document, by name
ObjectTypeNames == {nAddress, nUser, nQuery, nMutation}

\* The fields of an object type definition: <<field name, TypeNode>> pairs
fieldsOf(n) ==
    CASE n = nAddress -> << <<fId, NonNull(Named(nID))>>, <<fCity, Named(nString)>> >>
      [] n = nUser -> << <<fId, NonNull(Named(nID))>>,
                         <<fName, Named(nString)>>,
                         <<fAge, NonNull(Named(nInt))>>,
                         <<fRole, NonNull(Named(nUserRole))>>,
                         <<fBorn, Named(nDate)>>,
                         <<fAddress, Named(nAddress)>>,
                         <<fChildren, ListOf(Named(nUser))>>,
                         <<fUsers, NonNull(ListOf(NonNull(Named(nUser))))>>,
                         <<fNode, Named(nNode)>> >>
      [] n = nQuery -> << <<fUser, Named(nUser)>>,
                          <<fUsers, NonNull(ListOf(NonNull(Named(nUser))))>>,
                          <<fAddress, Named(nAddress)>>,
                          <<fChildren, ListOf(Named(nUser))>>,
                          <<fNode, Named(nNode)>>,
                          <<fName, Named(nString)>> >>
      [] n = nMutation -> << <<fUser, Named(nUser)>> >>
      [] OTHER -> <<>>

\* this.scalars: the scalar name -> C# type table (C_SHARP_SCALARS); Date has no entry
\* (<<>>, the empty text, is what a missing entry reads as: both are falsy)
scalars(n) ==
    CASE n = nID -> sString
      [] n = nString -> sString
      [] n = nInt -> sInt
      [] OTHER -> <<>>

csharpValueTypes == {sInt}
isValueType(t) == t \in csharpValueTypes

csharpKeywords == {sString, sInt, sObject}
convertSafeName(name) == IF name \in csharpKeywords THEN <<"@">> \o name ELSE name

\* The parts of a name between underscores
RECURSIVE SplitUnderscore(_, _, _)
SplitUnderscore(s, i, cur) ==
    IF i > Len(s) THEN <<cur>>
    ELSE IF s[i] = "_" THEN <<cur>> \o SplitUnderscore(s, i + 1, <<>>)
    ELSE SplitUnderscore(s, i + 1, Append(cur, s[i]))

RECURSIVE JoinUnderscore(_)
JoinUnderscore(parts) ==
    IF Len(parts) = 1 THEN parts[1]
    ELSE parts[1] \o <<"_">> \o JoinUnderscore(Tail(parts))

\* BaseVisitor.convertName with the default naming convention: pascalCase applied
\* to each part between underscores, the underscores kept
convertName(name) ==
    LET parts == SplitUnderscore(name, 1, <<>>)
    IN  JoinUnderscore([k \in 1..Len(parts) |-> pascalCase(parts[k])])

(***************************************************************************)
(* Type Resolver                                                           *)
(***************************************************************************)
getBaseTypeNode(t) == Named(t.name)

RECURSIVE getListInnerTypeNode(_)
getListInnerTypeNode(t) ==
    IF kindOf(t) = "ListType" THEN getListInnerTypeNode(innerOf(t))
    ELSE IF kindOf(t) = "NonNullType" /\ kindOf(innerOf(t)) = "ListType"
      THEN getListInnerTypeNode(innerOf(t))
    ELSE t

\* The ListTypeField chain, outermost list level first: one `required` flag per
\* list level; <<>> is undefined (no list).
RECURSIVE getListTypeField(_)
getListTypeField(t) ==
    IF kindOf(t) = "ListType" THEN <<FALSE>> \o getListTypeField(innerOf(t))
    ELSE IF kindOf(t) = "NonNullType" /\ kindOf(innerOf(t)) = "ListType"
      THEN <<TRUE>> \o Tail(getListTypeField(innerOf(t)))
    ELSE IF kindOf(t) = "NonNullType" THEN getListTypeField(innerOf(t))
    ELSE <<>>

getListTypeDepth(listType) == Len(listType)

CSharpFieldType(baseType, listType) == [baseType |-> baseType, listType |-> listType]

\* Mutant of baseRequired: the outermost layer is read instead of the innermost one
baseRequiredOutermost(t) == kindOf(t) = "NonNullType"

\* `required` as resolveFieldType reads it (line 413)
baseRequired(t) == kindOf(getListInnerTypeNode(t)) = "NonNullType"

\* Mutant of resolveBase: an enum is resolved like a plain object type (its literal
\* schema name, not a value type)
resolveBaseEnumAsObject(t) ==
    LET innerType == getBaseTypeNode(t)
        schemaType == innerType.name
        listType == getListTypeField(t)
        required == baseRequired(t)
    IN  IF schemaKind(schemaType) = "scalar"
          THEN IF scalars(schemaType) # <<>>
                 THEN CSharpFieldType([type |-> scalars(schemaType), required |-> required,
                                       valueType |-> isValueType(scalars(schemaType))],
                                      listType)
                 ELSE CSharpFieldType([type |-> sObject, required |-> required,
                                       valueType |-> FALSE], listType)
        ELSE IF schemaKind(schemaType) = "input"
          THEN CSharpFieldType([type |-> convertName(schemaType), required |-> required,
                                valueType |-> FALSE], listType)
        ELSE CSharpFieldType([type |-> schemaType, required |-> required,
                              valueType |-> FALSE], listType)

\* The descriptor before the default-value adjustment (lines 410-465)
resolveBase(t) ==
    LET innerType == getBaseTypeNode(t)
        schemaType == innerType.name
        listType == getListTypeField(t)
        required == baseRequired(t)
    IN  IF schemaKind(schemaType) = "scalar"
          THEN IF scalars(schemaType) # <<>>
                 THEN CSharpFieldType([type |-> scalars(schemaType), required |-> required,
                                       valueType |-> isValueType(scalars(schemaType))],
                                      listType)
                 ELSE CSharpFieldType([type |-> sObject, required |-> required,
                                       valueType |-> FALSE], listType)
        ELSE IF schemaKind(schemaType) = "input"
          THEN CSharpFieldType([type |-> convertName(schemaType), required |-> required,
                                valueType |-> FALSE], listType)
        ELSE IF schemaKind(schemaType) = "enum"
          THEN CSharpFieldType([type |-> convertName(schemaType), required |-> required,
                                valueType |-> TRUE], listType)
        ELSE CSharpFieldType([type |-> schemaType, required |-> required,
                              valueType |-> FALSE], listType)

\* Mutant of forceOptional: the list level is forgotten, only the base is cleared
forceOptionalBaseOnly(r) == [r EXCEPT !.baseType.required = FALSE]

\* (result.listType || result.baseType).required = false   (lines 467-470)
forceOptional(r) ==
    IF r.listType # <<>>
      THEN [r EXCEPT !.listType[1] = FALSE]
      ELSE [r EXCEPT !.baseType.required = FALSE]

resolveFieldType(t, hasDefault) ==
    IF hasDefault THEN forceOptional(resolveBase(t)) ELSE resolveBase(t)

\* CSharpFieldType.innerTypeName
innerTypeName(ft) ==
    IF ft.baseType.valueType /\ ~ft.baseType.required
      THEN ft.baseType.type \o <<"?">> ELSE ft.baseType.type

\* wrapFieldType(fieldType, listTypeField, 'List')
RECURSIVE wrapFieldType(_, _)
wrapFieldType(ft, listTypeField) ==
    IF listTypeField # <<>>
      THEN sList \o <<"<">> \o wrapFieldType(ft, Tail(listTypeField)) \o <<">">>
      ELSE innerTypeName(ft)

(***************************************************************************)
(* Selection Compiler                                                      *)
(***************************************************************************)
\* Selection nodes.  A FieldNode without a selectionSet has sels = <<>> (the
\* query language has no empty selection set).
Field(n, sels) == [kind |-> "Field", name |-> n, sels |-> sels]
FragmentSpread(n) == [kind |-> "FragmentSpread", name |-> n, sels |-> <<>>]
InlineFragment(onType, sels) == [kind |-> "InlineFragment", name |-> onType, sels |-> sels]

\* What a visitor method returns (err = "none") or throws
NoError == "none"
Ok(items) == [err |-> NoError, arg |-> <<>>, items |-> items]
Throw(e, arg) == [err |-> e, arg |-> arg, items |-> <<>>]
Failed(r) == r.err # NoError

\* Generated declarations: a [JsonProperty] property and a class block
Property(json, type, name) ==
    [k |-> "property", json |-> json, type |-> type, name |-> name, body |-> <<>>]
ClassBlock(name, body) ==
    [k |-> "class", json |-> <<>>, type |-> <<>>, name |-> name, body |-> body]

\* undefined, where an ObjectTypeDefinitionNode is expected
Undefined == <<>>

\* this._fragments: the loaded fragments
\*   fragment UserFields on User { id name }
\*   fragment UserDeep on User { age ...UserFields }
\*   fragment AsUser on Node { ... on User { id } }
\*   fragment Dangling on User { id ...Gone }
\* No fragment named Gone is loaded.
gUserFields == <<"U","s","e","r","F","i","e","l","d","s">>
gUserDeep == <<"U","s","e","r","D","e","e","p">>
gAsUser == <<"A","s","U","s","e","r">>
gDangling == <<"D","a","n","g","l","i","n","g">>
gGone == <<"G","o","n","e">>

\* A fragment definition of the documents
FragmentDefinition(name, onType, sels) ==
    [kind |-> "FragmentDefinition", operation |-> <<>>, name |-> name,
     typeCondition |-> onType, vars |-> <<>>, sels |-> sels]

dUserFields == FragmentDefinition(gUserFields, nUser, <<Field(fId, <<>>), Field(fName, <<>>)>>)
dUserDeep ==
    FragmentDefinition(gUserDeep, nUser, <<Field(fAge, <<>>), FragmentSpread(gUserFields)>>)
dAsUser == FragmentDefinition(gAsUser, nNode, <<InlineFragment(nUser, <<Field(fId, <<>>)>>)>>)
dDangling ==
    FragmentDefinition(gDangling, nUser, <<Field(fId, <<>>), FragmentSpread(gGone)>>)

\* allFragments of plugin: one LoadedFragment per fragment definition of the documents
allFragments(docs) ==
    LET defs == SelectSeq(docs, LAMBDA d : d.kind = "FragmentDefinition")
    IN  [i \in 1..Len(defs) |->
            [name |-> defs[i].name, onType |-> defs[i].typeCondition, sels |-> defs[i].sels]]

\* this._fragments: the fragments the visitor was constructed with
LoadedFragments == allFragments(documents)

\* this._fragments.find(f => f.name === name): the index, 0 when there is none
findFragment(name) ==
    IF \E i \in 1..Len(LoadedFragments) : LoadedFragments[i].name = name
      THEN CHOOSE i \in 1..Len(LoadedFragments) :
               /\ LoadedFragments[i].name = name
               /\ \A j \in 1..(i - 1) : LoadedFragments[j].name # name
      ELSE 0

\* parentSchema.fields.find(f => f.name.value === name): the index, 0 when there is none
findField(parentSchema, name) ==
    LET fs == fieldsOf(parentSchema)
    IN  IF \E i \in 1..Len(fs) : fs[i][1] = name
          THEN CHOOSE i \in 1..Len(fs) :
                   fs[i][1] = name /\ \A j \in 1..(i - 1) : fs[j][1] # name
          ELSE 0

\* this._schemaAST.definitions.find(d => d.kind === OBJECT_TYPE_DEFINITION &&
\*                                       d.name.value === name)
findObjectType(name) == IF name \in ObjectTypeNames THEN name ELSE Undefined

_getFragmentClassName(spread) == convertName(spread.name)

\* Mutant of nestedClassName: the trailing 's' is removed whether or not the field is
\* list-valued
nestedClassNameAlwaysStrip(fieldName, isList) ==
    LET baseTypeName == pascalCase(fieldName)
        stripped == IF endsWith(baseTypeName, <<"s">>)
                      THEN sliceDropLast(baseTypeName, 1) ELSE baseTypeName
    IN  convertSafeName(stripped \o sResult)

\* The name of the class synthesized for a composite field (lines 533-539)
nestedClassName(fieldName, isList) ==
    LET baseTypeName == pascalCase(fieldName)
        stripped == IF isList /\ endsWith(baseTypeName, <<"s">>)
                      THEN sliceDropLast(baseTypeName, 1) ELSE baseTypeName
    IN  convertSafeName(stripped \o sResult)

\* The property of a field whose only selection is one fragment spread (lines 503-517)
soleSpreadProperty(fieldNode, responseType) ==
    LET responseTypeName == _getFragmentClassName(fieldNode.sels[1])
    IN  IF responseType.listType # <<>>
          THEN Property(fieldNode.name,
                        sList \o <<"<">> \o responseTypeName \o <<">">>,
                        responseTypeName \o <<"s">>)
          ELSE Property(fieldNode.name, responseTypeName, responseTypeName)

isSoleSpread(fieldNode) ==
    Len(fieldNode.sels) = 1 /\ fieldNode.sels[1].kind = "FragmentSpread"

\* The result of compiling one selection followed by the result of compiling the
\* rest of the list: map() runs in order and the first throw aborts it; the texts
\* are joined.
joinResults(first, rest) ==
    IF Failed(first) THEN first
    ELSE IF Failed(rest) THEN rest
    ELSE Ok(first.items \o rest.items)

\* A class block around a compiled body (CSharpDeclarationBlock ... .withBlock(...))
classAround(name, block) ==
    IF Failed(block) THEN block ELSE Ok(<<ClassBlock(name, block.items)>>)

\* The nested class and the `Result` property of a composite field (lines 531-559)
compositeDefinition(fieldNode, responseType, selectionFields) ==
    LET baseTypeName == nestedClassName(fieldNode.name, responseType.listType # <<>>)
        selectionType == [baseType |-> [type |-> baseTypeName, required |-> FALSE,
                                        valueType |-> FALSE],
                          listType |-> responseType.listType]
    IN  IF Failed(selectionFields) THEN selectionFields
        ELSE Ok(<<ClassBlock(baseTypeName, selectionFields.items),
                  Property(fieldNode.name,
                           wrapFieldType(selectionType, selectionType.listType),
                           sResult)>>)

\* Mutant of leafDefinition: the tag carries the converted in-class name
leafDefinitionTaggedConverted(fieldNode, responseType) ==
    Ok(<<Property(convertSafeName(pascalCase(fieldNode.name)),
                  wrapFieldType(responseType, responseType.listType),
                  convertSafeName(pascalCase(fieldNode.name)))>>)

\* The property of a field without a selection set (lines 482-492)
leafDefinition(fieldNode, responseType) ==
    Ok(<<Property(fieldNode.name,
                  wrapFieldType(responseType, responseType.listType),
                  convertSafeName(pascalCase(fieldNode.name)))>>)

RECURSIVE _getFieldDefinition(_, _)
RECURSIVE _getFragmentSpreadDefinition(_, _)
RECURSIVE mapFieldSelections(_, _)
RECURSIVE mapSpreadSelections(_, _)

\* node.selectionSet.selections.map(...).join('\n') of _getFieldDefinition
\* (lines 519-529)
mapFieldSelections(sels, innerClassSchema) ==
    IF sels = <<>> THEN Ok(<<>>)
    ELSE joinResults(
           IF Head(sels).kind = "InlineFragment" THEN Throw("Unsupported kind", <<>>)
           ELSE IF Head(sels).kind = "FragmentSpread"
             THEN _getFragmentSpreadDefinition(Head(sels), innerClassSchema)
           ELSE _getFieldDefinition(Head(sels), innerClassSchema),
           mapFieldSelections(Tail(sels), innerClassSchema))

\* Mutant of mapSpreadSelections: an inline fragment inside an inlined fragment is
\* skipped instead of rejected
mapSpreadSelectionsSkipInline(sels, parentSchema) ==
    IF sels = <<>> THEN Ok(<<>>)
    ELSE joinResults(
           IF Head(sels).kind = "InlineFragment" THEN Ok(<<>>)
           ELSE IF Head(sels).kind = "Field"
             THEN _getFieldDefinition(Head(sels), parentSchema)
           ELSE _getFragmentSpreadDefinition(Head(sels), parentSchema),
           mapSpreadSelections(Tail(sels), parentSchema))

\* fragmentSchema.node.selectionSet.selections.map(...).join('\n') of
\* _getFragmentSpreadDefinition (lines 571-581)
mapSpreadSelections(sels, parentSchema) ==
    IF sels = <<>> THEN Ok(<<>>)
    ELSE joinResults(
           IF Head(sels).kind = "InlineFragment" THEN Throw("Unsupported kind", <<>>)
           ELSE IF Head(sels).kind = "Field"
             THEN _getFieldDefinition(Head(sels), parentSchema)
           ELSE _getFragmentSpreadDefinition(Head(sels), parentSchema),
           mapSpreadSelections(Tail(sels), parentSchema))

\* Mutant of _getFragmentSpreadDefinition: the fragment's selections are compiled
\* against the type its type condition names
_getFragmentSpreadDefinitionOnTypeCondition(spread, parentSchema) ==
    IF findFragment(spread.name) = 0
      THEN Throw("Fragment schema not found", spread.name)
      ELSE mapSpreadSelections(
             LoadedFragments[findFragment(spread.name)].sels,
             findObjectType(LoadedFragments[findFragment(spread.name)].onType))

\* this._fragments.find(...), then its selections compiled against parentSchema
\* (lines 563-582)
_getFragmentSpreadDefinition(spread, parentSchema) ==
    IF findFragment(spread.name) = 0
      THEN Throw("Fragment schema not found", spread.name)
      ELSE mapSpreadSelections(LoadedFragments[findFragment(spread.name)].sels,
                               parentSchema)

\* The declared type of the field found in parentSchema, resolved (line 480)
responseTypeOf(fieldNode, parentSchema) ==
    resolveFieldType(fieldsOf(parentSchema)[findField(parentSchema, fieldNode.name)][2],
                     FALSE)

\* Reading parentSchema.fields when parentSchema is undefined is a TypeError.
_getFieldDefinition(fieldNode, parentSchema) ==
    IF parentSchema = Undefined THEN Throw("TypeError", fieldNode.name)
    ELSE IF findField(parentSchema, fieldNode.name) = 0
      THEN Throw("Field schema not found", fieldNode.name)
    ELSE IF fieldNode.sels = <<>>
      THEN leafDefinition(fieldNode, responseTypeOf(fieldNode, parentSchema))
    ELSE IF isSoleSpread(fieldNode)
      THEN Ok(<<soleSpreadProperty(fieldNode, responseTypeOf(fieldNode, parentSchema))>>)
    ELSE compositeDefinition(
           fieldNode, responseTypeOf(fieldNode, parentSchema),
           mapFieldSelections(
             fieldNode.sels,
             findObjectType(responseTypeOf(fieldNode, parentSchema).baseType.type)))

\* node.selectionSet.selections.map(...) of getResponseClass and getFragmentClass
\* (lines 609-617, 636-643)
RECURSIVE mapRootSelections(_, _)
mapRootSelections(sels, rootSchema) ==
    IF sels = <<>> THEN Ok(<<>>)
    ELSE joinResults(
           IF Head(sels).kind # "Field" THEN Throw("Unknown kind", <<>>)
           ELSE _getFieldDefinition(Head(sels), rootSchema),
           mapRootSelections(Tail(sels), rootSchema))

lowerCaseText(s) == [i \in 1..Len(s) |-> toLowerCase(s[i])]

\* this._schemaAST.definitions.find(s => s.kind === OBJECT_TYPE_DEFINITION &&
\*                                       s.name.value.toLowerCase() === operation)
findOperationSchema(operation) ==
    IF \E n \in ObjectTypeNames : lowerCaseText(n) = operation
      THEN CHOOSE n \in ObjectTypeNames : lowerCaseText(n) = operation
      ELSE Undefined

_getResponseClassName(opNode) ==
    LET className == convertName(opNode.name) \o sPayload
    IN  IF startsWith(className, sGet) THEN sliceFrom(className, 3) ELSE className

_getVariablesClassName(opNode) == convertName(opNode.name) \o sRequest

getResponseClass(opNode) ==
    classAround(_getResponseClassName(opNode),
                mapRootSelections(opNode.sels, findOperationSchema(opNode.operation)))

getFragmentClass(fragNode) ==
    classAround(convertName(fragNode.name),
                mapRootSelections(fragNode.sels, findObjectType(fragNode.typeCondition)))

(***************************************************************************)
(* Operation Compiler: the request class                                   *)
(***************************************************************************)
OperationDefinition(operation, name, variableDefinitions, sels) ==
    [kind |-> "OperationDefinition", operation |-> operation, name |-> name,
     typeCondition |-> <<>>, vars |-> variableDefinitions, sels |-> sels]
VariableDefinition(name, type) == [name |-> name, type |-> type]

\* The property emitted for one variable (lines 655-666)
requestProperty(v) ==
    LET inputType == resolveFieldType(v.type, FALSE)
    IN  Property(v.name, wrapFieldType(inputType, inputType.listType),
                 convertSafeName(pascalCase(v.name)))

\* One constructor parameter: `${inputTypeName} ${inputName}` (lines 672-677)
constructorParam(v) ==
    LET inputType == resolveFieldType(v.type, FALSE)
    IN  [type |-> wrapFieldType(inputType, inputType.listType),
         name |-> convertSafeName(v.name)]

\* One constructor statement: `${inputVariableName} = ${inputName};` (lines 687-691)
constructorAssignment(v) ==
    [target |-> convertSafeName(pascalCase(v.name)), source |-> convertSafeName(v.name)]

Constructor(name, params, assigns) ==
    [k |-> "constructor", name |-> name, params |-> params, assigns |-> assigns]

getRequestClass(opNode) ==
    IF Len(opNode.vars) = 0 THEN Ok(<<>>)
    ELSE LET fields == [i \in 1..Len(opNode.vars) |-> requestProperty(opNode.vars[i])]
             params == [i \in 1..Len(opNode.vars) |-> constructorParam(opNode.vars[i])]
             assigns == [i \in 1..Len(opNode.vars) |-> constructorAssignment(opNode.vars[i])]
             constructor == Constructor(_getVariablesClassName(opNode), params, assigns)
         IN  Ok(<<ClassBlock(_getVariablesClassName(opNode),
                             fields \o <<constructor>>)>>)

(***************************************************************************)
(* Specification of the Type Resolver: resolveFieldType applied to one     *)
(* type reference drawn from the bounded set TypeNodes.                    *)
(***************************************************************************)
MaxTypeDepth == 3

WrapKinds == {"ListType", "NonNullType"}
ValidWrap(w) == \A i \in 1..(Len(w) - 1) : ~(w[i] = "NonNullType" /\ w[i + 1] = "NonNullType")
Wraps == {w \in UNION {[1..n -> WrapKinds] : n \in 0..MaxTypeDepth} : ValidWrap(w)}
ResolvableNames == {nID, nInt, nDate, nUserRole, nUserFilter, nUser}
TypeNodes == {[wrap |-> w, name |-> n] : w \in Wraps, n \in ResolvableNames}

idleVisitor == node = Idle /\ called = Idle /\ result = Idle
idlePlugin == config = Idle /\ documents = Idle /\ buffers = Idle
idleClient ==
    /\ _client = Idle /\ pc = Idle /\ endpoint = Idle
    /\ evalCount = Idle /\ created = Idle /\ returned = Idle
idleRequest == call = Idle /\ gqlRequest = Idle /\ httpMessage = Idle
idleResolve == typeNode = Idle /\ hasDefaultValue = Idle /\ fieldType = Idle

\* fieldType before the call
NotResolved == [resolved |-> FALSE]

InitResolve ==
    /\ typeNode \in TypeNodes
    /\ hasDefaultValue \in BOOLEAN
    /\ fieldType = NotResolved
    /\ idleVisitor /\ idlePlugin /\ idleClient /\ idleRequest

ResolveFieldType ==
    /\ fieldType = NotResolved
    /\ fieldType' = resolveFieldType(typeNode, hasDefaultValue)
    /\ UNCHANGED <<typeNode, hasDefaultValue>>
    /\ UNCHANGED <<visitorVars, pluginVars, clientVars, requestVars>>

NextResolve == ResolveFieldType

SpecResolve == InitResolve /\ [][NextResolve]_vars

Resolved == fieldType # NotResolved
NoRequiredLeft(ft) == ~ft.baseType.required /\ \A i \in 1..Len(ft.listType) : ~ft.listType[i]
\* The nullability the type reference declares, read off the reference itself
InnermostNonNull(t) == t.wrap # <<>> /\ t.wrap[Len(t.wrap)] = "NonNullType"
OutermostNonNull(t) == t.wrap # <<>> /\ t.wrap[1] = "NonNullType"
IsListRef(t) == \E i \in 1..Len(t.wrap) : t.wrap[i] = "ListType"

\* C2 (as claimed): with hasDefaultValue = true no `required = true` remains anywhere
\* in the resolved descriptor, neither at the base element nor at any list level.
C2_NoRequiredAnywhere ==
    (Resolved /\ hasDefaultValue) => NoRequiredLeft(fieldType)

\* C2 (amended): with hasDefaultValue = true the outermost level of the descriptor is
\* optional: the outermost list level when the reference is a list, in which case the
\* base element and the inner list levels keep the nullability the schema declares,
\* and the base element when the reference is not a list.
C2_OutermostOptional ==
    (Resolved /\ hasDefaultValue) =>
        /\ fieldType.listType = <<>> <=> ~IsListRef(typeNode)
        /\ IsListRef(typeNode) =>
              /\ ~fieldType.listType[1]
              /\ fieldType.baseType.required = InnermostNonNull(typeNode)
              /\ Tail(fieldType.listType) = Tail(resolveFieldType(typeNode, FALSE).listType)
        /\ ~IsListRef(typeNode) => ~fieldType.baseType.required
        /\ fieldType.baseType.type = resolveFieldType(typeNode, FALSE).baseType.type

\* C2 witness: a non-null list of non-null elements resolved with a default value
C2_Witness ==
    /\ Resolved /\ hasDefaultValue
    /\ typeNode.wrap = <<"NonNullType", "ListType", "NonNullType">>
    /\ fieldType.listType = <<FALSE>>
    /\ fieldType.baseType.required

\* C10: without a default value, the base element's `required` flag is true exactly
\* when the innermost layer of the reference is non-null, the outer list level's flag
\* is true exactly when the outermost layer is non-null, and no other reference to the
\* same named type (so not [T]! for [T!]) resolves to the same descriptor.
C10_IndependentNullability ==
    (Resolved /\ ~hasDefaultValue) =>
        /\ fieldType.baseType.required = InnermostNonNull(typeNode)
        /\ fieldType.listType = <<>> <=> ~IsListRef(typeNode)
        /\ IsListRef(typeNode) => fieldType.listType[1] = OutermostNonNull(typeNode)
        /\ \A t \in TypeNodes :
              (t.name = typeNode.name /\ t # typeNode) =>
                  resolveFieldType(t, FALSE) # fieldType

\* C10 witness: an optional list of required elements, [T!], has been resolved
C10_Witness ==
    /\ Resolved /\ ~hasDefaultValue
    /\ typeNode.wrap = <<"ListType", "NonNullType">>
    /\ fieldType.listType = <<FALSE>>
    /\ fieldType.baseType.required
    /\ resolveFieldType(NonNull(ListOf(Named(typeNode.name))), FALSE).listType = <<TRUE>>
    /\ ~resolveFieldType(NonNull(ListOf(Named(typeNode.name))), FALSE).baseType.required

\* What the schema under test makes of each base type name: the C# type and whether it
\* is a value type, written out name by name
expectedBase(n) ==
    CASE n = nID -> [type |-> <<"s","t","r","i","n","g">>, valueType |-> FALSE]
      [] n = nInt -> [type |-> <<"i","n","t">>, valueType |-> TRUE]
      [] n = nDate -> [type |-> <<"o","b","j","e","c","t">>, valueType |-> FALSE]
      [] n = nUserFilter -> [type |-> <<"U","s","e","r","F","i","l","t","e","r">>, valueType |-> FALSE]
      [] n = nUserRole -> [type |-> <<"U","s","e","r","_","R","o","l","e">>, valueType |-> TRUE]
      [] n = nUser -> [type |-> <<"U","s","e","r">>, valueType |-> FALSE]

\* C11: whatever the wrappers and the default-value flag, the base type is classified
\* by schema kind: a mapped scalar gives the mapped type with that type's value-type
\* flag (ID -> string, Int -> int), a scalar without a mapping gives object, not a value
\* type (Date), an input object gives its converted name, not a value type, an enum
\* gives its converted name and is a value type, any other type gives its literal
\* schema name, not a value type.
C11_BaseClassification ==
    Resolved =>
        /\ fieldType.baseType.type = expectedBase(typeNode.name).type
        /\ fieldType.baseType.valueType = expectedBase(typeNode.name).valueType

\* C11 witness: a reference to the scalar Date, which has no mapping, has been
\* resolved to object
C11_Witness ==
    /\ Resolved
    /\ typeNode.name = nDate
    /\ fieldType.baseType.type = <<"o","b","j","e","c","t">>
    /\ ~fieldType.baseType.valueType

(***************************************************************************)
(* Specification of the Selection Compiler: one definition, or one field   *)
(* with the object type it is selected against, is drawn from the          *)
(* selection sets of at most MaxNodes selection nodes and compiled.        *)
(***************************************************************************)
MaxNodes == 3

opQuery == <<"q","u","e","r","y">>
opMutation == <<"m","u","t","a","t","i","o","n">>
opSubscription == <<"s","u","b","s","c","r","i","p","t","i","o","n">>
oGetUsers == <<"g","e","t","U","s","e","r","s">>

LeafSelections ==
    {Field(fId, <<>>),
     FragmentSpread(gUserFields), FragmentSpread(gUserDeep), FragmentSpread(gAsUser),
     FragmentSpread(gDangling), FragmentSpread(gGone),
     InlineFragment(nUser, <<Field(fId, <<>>)>>)}
CompositeFieldNames == {fUser, fUsers, fAddress, fNode}

\* The selection sets of exactly n nodes, and the single selections of exactly n nodes.
\* table[k] holds the selection sets of exactly k nodes; it is built one size at a time.
selectionsFrom(table, n) ==
    IF n = 1 THEN LeafSelections
    ELSE {Field(f, sels) : f \in CompositeFieldNames, sels \in table[n - 1]}
selectionSetsFrom(table, n) ==
    UNION {{<<t>> \o rest : t \in selectionsFrom(table, k),
                             rest \in (IF n = k THEN {<<>>} ELSE table[n - k])} : k \in 1..n}
RECURSIVE selectionTable(_)
selectionTable(table) ==
    IF Len(table) >= MaxNodes THEN table
    ELSE selectionTable(Append(table, selectionSetsFrom(table, Len(table) + 1)))
SelectionTable == selectionTable(<<>>)
SelectionsOfSize(n) == selectionsFrom(SelectionTable, n)
SelectionSetsOfSize(n) == IF n = 0 THEN {<<>>} ELSE SelectionTable[n]

FieldCall(fieldNode, parentSchema) ==
    [kind |-> "FieldCall", field |-> fieldNode, parentSchema |-> parentSchema]

\* Definitions and fields to compile, of n nodes.  A subscription has no root type in
\* the schema and Node is an interface, so those definitions get the smaller selection
\* sets.  The last family is the queries of two composite fields with the same
\* selection set of n nodes.
CompileInputs(n) ==
    \/ \E sels \in SelectionSetsOfSize(n) :
            node = OperationDefinition(opQuery, oGetUsers, <<>>, sels)
    \/ \E sels \in SelectionSetsOfSize(n) :
            n < MaxNodes /\ node = OperationDefinition(opSubscription, oGetUsers, <<>>, sels)
    \/ \E sels \in SelectionSetsOfSize(n) :
            node = FragmentDefinition(gUserFields, nUser, sels)
    \/ \E sels \in SelectionSetsOfSize(n) :
            n < MaxNodes /\ node = FragmentDefinition(gUserFields, nNode, sels)
    \/ \E f \in SelectionsOfSize(n), p \in {nQuery, nUser} :
            f.kind = "Field" /\ node = FieldCall(f, p)
    \/ \E f \in CompositeFieldNames, g \in CompositeFieldNames :
            \E sels \in SelectionSetsOfSize(n) :
                /\ n + 1 < MaxNodes
                /\ node = OperationDefinition(opQuery, oGetUsers, <<>>,
                                              <<Field(f, sels), Field(g, sels)>>)

NotCalled == ""
NoResult == [err |-> "not called", arg |-> <<>>, items |-> <<>>]

\* The fragment definitions every compilation of Spec is run against
StandingDocuments == <<dUserFields, dUserDeep, dAsUser, dDangling>>

Init ==
    /\ \E n \in 1..MaxNodes : CompileInputs(n)
    /\ called = NotCalled
    /\ result = NoResult
    /\ documents = StandingDocuments
    /\ config = Idle /\ buffers = Idle
    /\ idleResolve /\ idleClient /\ idleRequest

GetResponseClass ==
    /\ called = NotCalled
    /\ node.kind = "OperationDefinition"
    /\ called' = "getResponseClass"
    /\ result' = getResponseClass(node)
    /\ UNCHANGED <<node, resolveVars, pluginVars, clientVars, requestVars>>

GetFragmentClass ==
    /\ called = NotCalled
    /\ node.kind = "FragmentDefinition"
    /\ called' = "getFragmentClass"
    /\ result' = getFragmentClass(node)
    /\ UNCHANGED <<node, resolveVars, pluginVars, clientVars, requestVars>>

GetFieldDefinition ==
    /\ called = NotCalled
    /\ node.kind = "FieldCall"
    /\ called' = "_getFieldDefinition"
    /\ result' = _getFieldDefinition(node.field, node.parentSchema)
    /\ UNCHANGED <<node, resolveVars, pluginVars, clientVars, requestVars>>

Next == GetResponseClass \/ GetFragmentClass \/ GetFieldDefinition

Spec == Init /\ [][Next]_vars

(***************************************************************************)
(* Properties of the Selection Compiler                                    *)
(***************************************************************************)
Called == called # NotCalled
IsDefinition == node.kind # "FieldCall"
\* The selections the call compiles and the object type they are compiled against
RootSelections == IF node.kind = "FieldCall" THEN <<node.field>> ELSE node.sels
RootSchema ==
    IF node.kind = "FieldCall" THEN node.parentSchema
    ELSE IF node.kind = "OperationDefinition" THEN findOperationSchema(node.operation)
    ELSE findObjectType(node.typeCondition)

\* What the schema declares for a selected field, read off the schema
declaredType(fieldNode, parentSchema) ==
    fieldsOf(parentSchema)[findField(parentSchema, fieldNode.name)][2]
listDepth(t) == Cardinality({i \in 1..Len(t.wrap) : t.wrap[i] = "ListType"})

RECURSIVE listWrapped(_, _)
listWrapped(depth, name) ==
    IF depth = 0 THEN name
    ELSE <<"L","i","s","t","<">> \o listWrapped(depth - 1, name) \o <<">">>

\* pascalCase(field name), one trailing 's' removed when list-valued, + "Result"
expectedNestedName(fieldName, isList) ==
    LET p == pascalCase(fieldName)
    IN  (IF isList /\ p[Len(p)] = "s" THEN SubSeq(p, 1, Len(p) - 1) ELSE p)
            \o <<"R","e","s","u","l","t">>

classCount(items) == Cardinality({i \in 1..Len(items) : items[i].k = "class"})

\* C4: a field whose selection set is exactly one fragment spread compiles to one
\* property and no class, typed with the fragment's converted name (List<Name>, named
\* Name + "s", when the field is list-valued, else named Name); every other composite
\* field compiles to exactly one nested class named pascalCase(field) + "Result" (a
\* trailing "s" removed first only when list-valued) followed by a property named
\* Result of that class type, wrapped as a list when the field is list-valued.
C4_FieldShape ==
    (called = "_getFieldDefinition" /\ ~Failed(result) /\ node.field.sels # <<>>) =>
        LET f == node.field
            t == declaredType(f, node.parentSchema)
            isList == IsListRef(t)
            fragName == convertName(f.sels[1].name)
            nested == expectedNestedName(f.name, isList)
        IN  IF Len(f.sels) = 1 /\ f.sels[1].kind = "FragmentSpread"
              THEN /\ classCount(result.items) = 0
                   /\ result.items =
                        <<Property(f.name,
                                   IF isList THEN listWrapped(1, fragName) ELSE fragName,
                                   IF isList THEN fragName \o <<"s">> ELSE fragName)>>
              ELSE /\ classCount(result.items) = 1
                   /\ Len(result.items) = 2
                   /\ result.items[1].k = "class"
                   /\ result.items[1].name = nested
                   /\ result.items[2] =
                        Property(f.name, listWrapped(listDepth(t), nested),
                                 <<"R","e","s","u","l","t">>)

\* C4 witness: the list-valued composite field `users { id }` of Query has been
\* compiled to the class UserResult and a List<UserResult> property
C4_Witness ==
    /\ called = "_getFieldDefinition" /\ ~Failed(result)
    /\ node.field = Field(fUsers, <<Field(fId, <<>>)>>)
    /\ node.parentSchema = nQuery
    /\ result.items[1].name = <<"U","s","e","r","R","e","s","u","l","t">>
    /\ result.items[2].type = <<"L","i","s","t","<","U","s","e","r","R","e","s","u","l","t",">">>

\* A spread naming a fragment that is not loaded occurs in the selections: as a
\* selection itself, below a field, or inside a loaded fragment that is spread
RECURSIVE HasAbsentSpread(_)
HasAbsentSpread(sels) ==
    \E i \in 1..Len(sels) :
        \/ /\ sels[i].kind = "FragmentSpread"
           /\ \/ findFragment(sels[i].name) = 0
              \/ HasAbsentSpread(LoadedFragments[findFragment(sels[i].name)].sels)
        \/ /\ sels[i].kind # "FragmentSpread"
           /\ HasAbsentSpread(sels[i].sels)

\* C7 (as claimed): a spread naming an absent fragment aborts the compilation wherever
\* it occurs.  Stated here by its weakest consequence: the call does not return text.
C7_AbsentSpreadAborts ==
    (Called /\ HasAbsentSpread(RootSelections)) => Failed(result)

DescriptiveErrors ==
    {"Field schema not found", "Fragment schema not found", "Unsupported kind",
     "Unknown kind", "Operation schema not found", "Unexpected operation type"}

\* C8 (as claimed): a compilation call returns text or aborts with one of the
\* descriptive errors; no other failure occurs.
C8_OnlyDescriptiveErrors ==
    Called => (~Failed(result) \/ result.err \in DescriptiveErrors)

\* An inline fragment stands at a position the compilation traverses: in the root
\* selections, in the selection set of a composite field, or in a loaded fragment
\* that is inlined through a spread
RECURSIVE ReachesInline(_, _)
ReachesInline(sels, atRoot) ==
    \E i \in 1..Len(sels) :
        \/ sels[i].kind = "InlineFragment"
        \/ /\ sels[i].kind = "Field" /\ sels[i].sels # <<>> /\ ~isSoleSpread(sels[i])
           /\ ReachesInline(sels[i].sels, FALSE)
        \/ /\ sels[i].kind = "FragmentSpread" /\ ~atRoot
           /\ findFragment(sels[i].name) # 0
           /\ ReachesInline(LoadedFragments[findFragment(sels[i].name)].sels, FALSE)

\* The traversed selections have no other defect: every field is declared by the type
\* it is selected against and every inlined spread names a loaded fragment
RECURSIVE NoOtherDefect(_, _, _)
NoOtherDefect(sels, parentSchema, atRoot) ==
    \A i \in 1..Len(sels) :
        /\ sels[i].kind = "Field" =>
              /\ parentSchema # Undefined
              /\ findField(parentSchema, sels[i].name) # 0
              /\ (sels[i].sels # <<>> /\ ~isSoleSpread(sels[i])) =>
                    NoOtherDefect(sels[i].sels,
                                  findObjectType(declaredType(sels[i], parentSchema).name),
                                  FALSE)
        /\ (sels[i].kind = "FragmentSpread" /\ ~atRoot) =>
              /\ findFragment(sels[i].name) # 0
              /\ NoOtherDefect(LoadedFragments[findFragment(sels[i].name)].sels,
                               parentSchema, FALSE)

RECURSIVE Inlinable(_)
Inlinable(sels) ==
    \A i \in 1..Len(sels) :
        \/ sels[i].kind = "Field"
        \/ /\ sels[i].kind = "FragmentSpread"
           /\ findFragment(sels[i].name) # 0
           /\ Inlinable(LoadedFragments[findFragment(sels[i].name)].sels)

\* The fields a selection set puts into one class body: its own fields in order, a
\* spread replaced by the fields of the fragment it names
RECURSIVE inlinedFields(_)
inlinedFields(sels) ==
    IF sels = <<>> THEN <<>>
    ELSE (IF Head(sels).kind = "FragmentSpread"
            THEN inlinedFields(LoadedFragments[findFragment(Head(sels).name)].sels)
            ELSE <<Head(sels)>>)
         \o inlinedFields(Tail(sels))

\* A composite field of the parent type whose selection set holds a spread that is
\* not its sole selection has been compiled
SpreadCase ==
    /\ called = "_getFieldDefinition"
    /\ node.field.sels # <<>>
    /\ ~isSoleSpread(node.field)
    /\ \E i \in 1..Len(node.field.sels) : node.field.sels[i].kind = "FragmentSpread"
    /\ Inlinable(node.field.sels)
    /\ findField(node.parentSchema, node.field.name) # 0

firstFailed(parts) ==
    parts[CHOOSE k \in 1..Len(parts) :
              Failed(parts[k]) /\ \A j \in 1..(k - 1) : ~Failed(parts[j])]

\* C14: a fragment spread that is not the sole selection of its field is compiled by
\* inlining: the class body of the field is the concatenation, in order, of what
\* each field of the selection set, the spreads replaced recursively by the fields
\* of their fragments, compiles to against the field's own object type, whatever the
\* fragments' type conditions; the first failure among them is the failure of the
\* call; the spread itself adds no class and no property.
C14_SpreadInlined ==
    SpreadCase =>
        LET inner == findObjectType(declaredType(node.field, node.parentSchema).name)
            flds == inlinedFields(node.field.sels)
            parts == [k \in 1..Len(flds) |-> _getFieldDefinition(flds[k], inner)]
        IN  IF \E k \in 1..Len(parts) : Failed(parts[k])
              THEN result = firstFailed(parts)
              ELSE /\ ~Failed(result)
                   /\ Len(result.items) = 2
                   /\ result.items[1].k = "class"
                   /\ result.items[1].body = Flatten([k \in 1..Len(parts) |-> parts[k].items])
                   /\ result.items[2].k = "property"

\* C14 witness: `user { id ...UserDeep }` compiled against Query, UserDeep being
\* `age ...UserFields` and UserFields `id name`: the body of UserResult is the four
\* properties Id, Age, Id, Name
C14_Witness ==
    /\ SpreadCase
    /\ node.parentSchema = nQuery
    /\ node.field = Field(fUser, <<Field(fId, <<>>), FragmentSpread(gUserDeep)>>)
    /\ ~Failed(result)
    /\ [k \in 1..Len(result.items[1].body) |-> result.items[1].body[k].json]
         = <<fId, fAge, fId, fName>>

\* The fields of a selection set have pairwise distinct names, and so have those of
\* the selection set of each of them
RECURSIVE DistinctFieldNames(_)
DistinctFieldNames(sels) ==
    /\ \A i, j \in 1..Len(sels) :
           (i # j /\ sels[i].kind = "Field" /\ sels[j].kind = "Field")
               => sels[i].name # sels[j].name
    /\ \A i \in 1..Len(sels) : DistinctFieldNames(sels[i].sels)

\* The declarations of a class body have pairwise distinct names, and so have those
\* of each class nested in it
RECURSIVE DistinctMemberNames(_)
DistinctMemberNames(body) ==
    /\ \A i, j \in 1..Len(body) : i # j => body[i].name # body[j].name
    /\ \A i \in 1..Len(body) : DistinctMemberNames(body[i].body)

\* C15: in every generated class body (response root, fragment class, nested class)
\* the property names and the nested class names are pairwise distinct, whenever
\* the field names of each compiled selection set are pairwise distinct.
C15_DistinctMemberNames ==
    (Called /\ ~Failed(result) /\ DistinctFieldNames(RootSelections))
        => DistinctMemberNames(result.items)

(***************************************************************************)
(* Specification of the request class: getRequestClass applied to an       *)
(* operation with at most MaxVars variable definitions.                    *)
(***************************************************************************)
MaxVars == 2

vId == <<"i","d">>
vUserId == <<"u","s","e","r","I","d">>
vPascalId == <<"I","d">>
vString == <<"s","t","r","i","n","g">>
oUsers == <<"u","s","e","r","s">>
oSaveUser == <<"s","a","v","e","_","u","s","e","r">>

VariableNames == {vId, vUserId, vPascalId, vString}
VariableTypes ==
    {NonNull(Named(nID)), NonNull(ListOf(NonNull(Named(nString)))), ListOf(Named(nInt)),
     Named(nUserFilter), NonNull(Named(nUserRole))}
VariablePool == {VariableDefinition(n, t) : n \in VariableNames, t \in VariableTypes}
DistinctNames(vs) == \A i, j \in 1..Len(vs) : i # j => vs[i].name # vs[j].name
VariableLists ==
    {vs \in UNION {[1..n -> VariablePool] : n \in 0..MaxVars} : DistinctNames(vs)}

RequestInputs ==
    {OperationDefinition(opQuery, o, vs, <<Field(fUser, <<Field(fId, <<>>)>>)>>) :
        o \in {oGetUsers, oUsers, oSaveUser}, vs \in VariableLists}

InitRequest ==
    /\ node \in RequestInputs
    /\ called = NotCalled
    /\ result = NoResult
    /\ idleResolve /\ idlePlugin /\ idleClient /\ idleRequest

GetRequestClass ==
    /\ called = NotCalled
    /\ node.kind = "OperationDefinition"
    /\ called' = "getRequestClass"
    /\ result' = getRequestClass(node)
    /\ UNCHANGED <<node, resolveVars, pluginVars, clientVars, requestVars>>

NextRequest == GetRequestClass

SpecRequest == InitRequest /\ [][NextRequest]_vars


(***************************************************************************)
(* The generated client: the static `client` getter that getClientDeclaration*)
(* emits, run by concurrent callers.  Each caller is at one statement of    *)
(* the getter; the statements of different callers interleave freely, the   *)
(* getter takes no lock.                                                    *)
(***************************************************************************)
MaxCallers == 2
MaxAccesses == 3

Callers == 1..MaxCallers
Absent == ""
eProd == "https://prod/graphql"
eDev == "https://dev/graphql"
pIsDev == "Env.IsDevelopment"

HttpClientConfig(prodEndpoint, devEndpoint, useDevIf) ==
    [prodEndpoint |-> prodEndpoint, devEndpoint |-> devEndpoint, useDevIf |-> useDevIf]
NoHttpClientConfig == [absent |-> TRUE]
HttpClientConfigs ==
    {HttpClientConfig(p, d, u) : p \in {Absent, eProd}, d \in {Absent, eDev},
                                 u \in {Absent, pIsDev}}
        \cup {NoHttpClientConfig}

\* Which client declaration getClientDeclaration emits: none, the getter bound to
\* prodEndpoint, or the getter that selects the endpoint by the useDevIf predicate
getClientDeclaration(cfg) ==
    IF cfg.httpClientConfig = NoHttpClientConfig THEN "none"
    ELSE IF cfg.httpClientConfig.prodEndpoint = Absent THEN "none"
    ELSE IF cfg.httpClientConfig.useDevIf = Absent
            \/ cfg.httpClientConfig.devEndpoint = Absent
      THEN "prodGetter"
    ELSE "selectingGetter"

\* `private static GraphQLHttpClient _client;` before its first assignment
NoClient == [id |-> 0, endpoint |-> Absent]
GraphQLHttpClient(id, e) == [id |-> id, endpoint |-> e]

InitClient ==
    /\ config \in [httpClientConfig : HttpClientConfigs, typesafeOperation : {FALSE}]
    /\ _client = NoClient
    /\ pc = [c \in Callers |-> "idle"]
    /\ endpoint = [c \in Callers |-> Absent]
    /\ evalCount = 0
    /\ created = 0
    /\ returned = <<>>
    /\ documents = Idle /\ buffers = Idle
    /\ idleResolve /\ idleVisitor /\ idleRequest

InFlight == {c \in Callers : pc[c] # "idle"}
hasGetter == getClientDeclaration(config) # "none"

\* a caller reads the `client` property: control enters the getter
EnterGetter(c) ==
    /\ hasGetter
    /\ pc[c] = "idle"
    /\ Len(returned) + Cardinality(InFlight) < MaxAccesses
    /\ pc' = [pc EXCEPT ![c] = "check"]
    /\ UNCHANGED <<_client, endpoint, evalCount, created, returned>>
    /\ UNCHANGED <<resolveVars, visitorVars, pluginVars, requestVars>>

\* `if (_client == null)`
CheckNull(c) ==
    /\ pc[c] = "check"
    /\ pc' = [pc EXCEPT ![c] =
                IF _client # NoClient THEN "return"
                ELSE IF getClientDeclaration(config) = "selectingGetter" THEN "select"
                ELSE "construct"]
    /\ UNCHANGED <<_client, endpoint, evalCount, created, returned>>
    /\ UNCHANGED <<resolveVars, visitorVars, pluginVars, requestVars>>

\* `var endpoint = <useDevIf> ? "<devEndpoint>" : "<prodEndpoint>";` -- the predicate
\* is an expression of the host program, its value is whatever it is when evaluated
SelectEndpoint(c) ==
    /\ pc[c] = "select"
    /\ \E useDev \in BOOLEAN :
          endpoint' = [endpoint EXCEPT ![c] =
                          IF useDev THEN config.httpClientConfig.devEndpoint
                          ELSE config.httpClientConfig.prodEndpoint]
    /\ evalCount' = evalCount + 1
    /\ pc' = [pc EXCEPT ![c] = "construct"]
    /\ UNCHANGED <<_client, created, returned>>
    /\ UNCHANGED <<resolveVars, visitorVars, pluginVars, requestVars>>

\* `_client = new GraphQLHttpClient(endpoint, new NewtonsoftJsonSerializer());`
ConstructClient(c) ==
    /\ pc[c] = "construct"
    /\ created' = created + 1
    /\ _client' = GraphQLHttpClient(created + 1,
                                    IF getClientDeclaration(config) = "selectingGetter"
                                      THEN endpoint[c]
                                      ELSE config.httpClientConfig.prodEndpoint)
    /\ pc' = [pc EXCEPT ![c] = "return"]
    /\ UNCHANGED <<endpoint, evalCount, returned>>
    /\ UNCHANGED <<resolveVars, visitorVars, pluginVars, requestVars>>

\* `return _client;`
ReturnClient(c) ==
    /\ pc[c] = "return"
    /\ returned' = Append(returned, _client)
    /\ pc' = [pc EXCEPT ![c] = "idle"]
    /\ UNCHANGED <<_client, endpoint, evalCount, created>>
    /\ UNCHANGED <<resolveVars, visitorVars, pluginVars, requestVars>>

NextClient ==
    \/ \E c \in Callers : EnterGetter(c)
    \/ \E c \in Callers : CheckNull(c)
    \/ \E c \in Callers : SelectEndpoint(c)
    \/ \E c \in Callers : ConstructClient(c)
    \/ \E c \in Callers : ReturnClient(c)

SpecClient == InitClient /\ [][NextClient]_vars

\* C1 (as claimed): with prodEndpoint, devEndpoint and useDevIf all configured, under
\* every interleaving of the callers the useDevIf predicate is evaluated at most
\* once, exactly once as soon as an access has returned, and all accesses return the
\* same client instance.
C1_SelectedOnceSameInstance ==
    getClientDeclaration(config) = "selectingGetter" =>
        /\ evalCount <= 1
        /\ returned # <<>> => evalCount = 1
        /\ \A i, j \in 1..Len(returned) : returned[i] = returned[j]

\* With one caller at a time the getter does compute once and reuse
SequentialClient ==
    (getClientDeclaration(config) = "selectingGetter" /\ created <= 1) =>
        \A i, j \in 1..Len(returned) : returned[i] = returned[j]

(***************************************************************************)
(* The generated request path: an operation method builds the request      *)
(* object (getOperationConcreteMethod) and the transport asks it for the    *)
(* HTTP message (GraphQLHttpRequestWithHeaders.ToHttpRequestMessage).       *)
(***************************************************************************)
MaxHeaders == 2

\* C# values: null, a string, a Dictionary<string, string>
CSharpNull == [null |-> TRUE]
Str(text) == [null |-> FALSE, value |-> text]
Dictionary(pairs) == [null |-> FALSE, entries |-> pairs]
\* an optional argument the caller leaves out
Omitted == [omitted |-> TRUE]

\* `string authToken = "", Dictionary<string, string> headers = null` (httpArguments)
httpArguments == [authToken |-> Str(""), headers |-> CSharpNull]
bindArgument(argument, default) == IF argument = Omitted THEN default ELSE argument

HeaderPool == {<<"X-Tenant", "acme">>, <<"X-Trace", "42">>, <<"Accept-Language", "en">>}
Dictionaries == {Dictionary(d) : d \in {d \in SUBSET HeaderPool : Cardinality(d) <= MaxHeaders}}
AuthTokens == {Omitted, CSharpNull, Str(""), Str("secret")}
HeaderArguments == {Omitted, CSharpNull} \cup Dictionaries

MethodCall(operation, name, authToken, headers) ==
    [operation |-> operation, name |-> name, authToken |-> authToken, headers |-> headers]

NotBuilt == [built |-> FALSE]
NotSent == [sent |-> FALSE]

\* With httpClientConfig the method takes authToken and headers; without it the method
\* takes the client instead and has neither parameter (clientArgument, httpArguments)
InitHttp ==
    /\ config \in [httpClientConfig : {NoHttpClientConfig,
                                       HttpClientConfig(eProd, Absent, Absent),
                                       HttpClientConfig(Absent, eDev, pIsDev)},
                   typesafeOperation : {FALSE}]
    /\ call \in {MethodCall(o, oGetUsers, t, h) :
                    o \in {opQuery, opMutation, opSubscription},
                    t \in AuthTokens, h \in HeaderArguments}
    /\ config.httpClientConfig = NoHttpClientConfig =>
          call.authToken = Omitted /\ call.headers = Omitted
    /\ gqlRequest = NotBuilt
    /\ httpMessage = NotSent
    /\ documents = Idle /\ buffers = Idle
    /\ idleResolve /\ idleVisitor /\ idleClient

\* `var gqlRequest = new GraphQLHttpRequestWithHeaders { ..., AuthToken = authToken,
\* Headers = headers, OperationName = ... }` or `new GraphQLRequest { ... }`
buildRequest(cfg, c) ==
    IF cfg.httpClientConfig # NoHttpClientConfig
      THEN [type |-> "GraphQLHttpRequestWithHeaders",
            AuthToken |-> bindArgument(c.authToken, httpArguments.authToken),
            Headers |-> bindArgument(c.headers, httpArguments.headers),
            OperationName |-> c.name]
      ELSE [type |-> "GraphQLRequest", OperationName |-> c.name]

BuildRequest ==
    /\ gqlRequest = NotBuilt
    /\ gqlRequest' = buildRequest(config, call)
    /\ UNCHANGED <<call, httpMessage>>
    /\ UNCHANGED <<resolveVars, visitorVars, pluginVars, clientVars>>

\* `var r = base.ToHttpRequestMessage(options, serializer);`
NoAuthorization == [set |-> FALSE]
AuthenticationHeaderValue(scheme, parameter) ==
    [set |-> TRUE, scheme |-> scheme, parameter |-> parameter]
baseHttpRequestMessage == [Authorization |-> NoAuthorization, Headers |-> {}]

\* `if (AuthToken != null) { r.Headers.Authorization = new
\* AuthenticationHeaderValue("Bearer", AuthToken); }`
attachToken(r, AuthToken) ==
    IF AuthToken # CSharpNull
      THEN [r EXCEPT !.Authorization = AuthenticationHeaderValue("Bearer", AuthToken.value)]
      ELSE r

\* `if (Headers != null) { foreach (var h in Headers) r.Headers.Add(h.Key, h.Value); }`
mergeHeaders(r, Headers) ==
    IF Headers # CSharpNull
      THEN [r EXCEPT !.Headers = r.Headers \cup Headers.entries]
      ELSE r

ToHttpRequestMessage ==
    /\ gqlRequest # NotBuilt
    /\ gqlRequest.type = "GraphQLHttpRequestWithHeaders"
    /\ httpMessage = NotSent
    /\ httpMessage' = mergeHeaders(attachToken(baseHttpRequestMessage, gqlRequest.AuthToken),
                                   gqlRequest.Headers)
    /\ UNCHANGED <<call, gqlRequest>>
    /\ UNCHANGED <<resolveVars, visitorVars, pluginVars, clientVars>>

NextHttp == BuildRequest \/ ToHttpRequestMessage

SpecHttp == InitHttp /\ [][NextHttp]_vars

\* The token the call is made with is null, or "" (given, or left to the default)
emptyToken == call.authToken \in {Omitted, CSharpNull, Str("")}
suppliedHeaders == IF call.headers \in {Omitted, CSharpNull} THEN {} ELSE call.headers.entries

\* C6 (as claimed): the message of a call made with the default or an empty token
\* carries no Authorization header; a message carries one only for a non-empty token;
\* the supplied headers are on the message in either case.
C6_AuthorizationOnlyIfNonEmpty ==
    httpMessage # NotSent =>
        /\ emptyToken => httpMessage.Authorization = NoAuthorization
        /\ suppliedHeaders \subseteq httpMessage.Headers

\* What the request class does: the token is attached unless it is null, and the
\* supplied headers are merged whether or not a token is attached
TokenAttachedUnlessNull ==
    httpMessage # NotSent =>
        /\ (httpMessage.Authorization = NoAuthorization) = (call.authToken = CSharpNull)
        /\ suppliedHeaders = httpMessage.Headers

(***************************************************************************)
(* The plugin function: the declaration buffers it assembles from the      *)
(* combined documents and the schema.                                      *)
(***************************************************************************)
MaxDefinitions == 2

\* The enum and input object type definitions of the schema document
fAdmin == <<"A","D","M","I","N">>
fGuest == <<"G","U","E","S","T">>
allEnumTypes == << [name |-> nUserRole, values |-> <<fAdmin, fGuest>>] >>
allInputTypes ==
    << [name |-> nUserFilter,
        fields |-> << <<fName, Named(nString)>>, <<fRole, NonNull(Named(nUserRole))>> >>] >>

allOperations(docs) == SelectSeq(docs, LAMBDA d : d.kind = "OperationDefinition")

EnumBlock(name, values) ==
    [k |-> "enum", json |-> <<>>, type |-> <<>>, name |-> name, body |-> values]

\* InputObjectTypeDefinition: '' unless typesafeOperation, else the input class
InputObjectTypeDefinition(cfg, inputType) ==
    IF ~cfg.typesafeOperation THEN Ok(<<>>)
    ELSE Ok(<<ClassBlock(convertSafeName(convertName(inputType.name)),
                         [i \in 1..Len(inputType.fields) |->
                             LET f == inputType.fields[i]
                                 ft == resolveFieldType(f[2], FALSE)
                             IN  Property(f[1], wrapFieldType(ft, ft.listType),
                                          convertSafeName(pascalCase(f[1])))])>>)

\* getEnumDefinition: the enum declaration, whatever the configuration
getEnumDefinition(enumType) ==
    Ok(<<EnumBlock(convertSafeName(convertName(enumType.name)), enumType.values)>>)

MethodSignature(name, responseClass, parameters) ==
    [k |-> "method", json |-> <<>>, type |-> responseClass, name |-> name,
     body |-> <<>>, parameters |-> parameters]

\* The parameter names of the generated methods (lines 728-737):
\* clientArgument = this.config.httpClientConfig ? '' : 'IGraphQLClient client, '
clientArgument(cfg) ==
    IF cfg.httpClientConfig # NoHttpClientConfig THEN <<>> ELSE <<"client">>
httpParameters(cfg) ==
    IF cfg.httpClientConfig # NoHttpClientConfig THEN <<"authToken", "headers">> ELSE <<>>
getVariablesArguments(opNode) == IF opNode.vars # <<>> THEN <<"request">> ELSE <<>>

sCreateSubscriptionStream ==
    <<"C","r","e","a","t","e","S","u","b","s","c","r","i","p","t","i","o","n","S","t","r","e","a","m">>

\* lines 737-746
getMutationMethodDefinition(cfg, opNode) ==
    MethodSignature(convertName(opNode.name) \o <<"A","s","y","n","c">>,
                    _getResponseClassName(opNode),
                    clientArgument(cfg) \o getVariablesArguments(opNode)
                        \o httpParameters(cfg) \o <<"cancellationToken">>)

\* lines 748-756
getSubscriptionMethodDefinition(cfg, opNode) ==
    MethodSignature(sCreateSubscriptionStream, _getResponseClassName(opNode),
                    clientArgument(cfg) \o getVariablesArguments(opNode)
                        \o httpParameters(cfg))

\* lines 758-767
getSubscriptionMethodDefinitionWithHandler(cfg, opNode) ==
    MethodSignature(sCreateSubscriptionStream, _getResponseClassName(opNode),
                    clientArgument(cfg) \o getVariablesArguments(opNode)
                        \o <<"exceptionHandler">> \o httpParameters(cfg))

\* getOperationInterfaceMethods: one signature, or two for a subscription
getOperationInterfaceMethods(cfg, opNode) ==
    IF opNode.operation \in {opQuery, opMutation}
      THEN Ok(<<getMutationMethodDefinition(cfg, opNode)>>)
    ELSE IF opNode.operation = opSubscription
      THEN Ok(<<getSubscriptionMethodDefinition(cfg, opNode),
                getSubscriptionMethodDefinitionWithHandler(cfg, opNode)>>)
    ELSE Throw("Unexpected operation type", opNode.operation)

\* A method with the call its body returns: `return <receiver>.<method>(gqlRequest...)`
MethodCallOn(receiver, method) == [k |-> "call", receiver |-> receiver, name |-> method]
ConcreteMethod(signature, receiver, method) ==
    [signature EXCEPT !.body = <<MethodCallOn(receiver, method)>>]

\* getOperationConcreteMethod: the methods with their bodies; the root type must
\* exist (lines 769-837)
getOperationConcreteMethod(cfg, opNode) ==
    IF findOperationSchema(opNode.operation) = Undefined
      THEN Throw("Operation schema not found", opNode.operation)
    ELSE IF opNode.operation \in {opQuery, opMutation}
      THEN Ok(<<ConcreteMethod(getMutationMethodDefinition(cfg, opNode), "client",
                               <<"S","e","n","d">>
                                   \o findOperationSchema(opNode.operation)
                                   \o <<"A","s","y","n","c">>)>>)
    ELSE IF opNode.operation = opSubscription
      THEN Ok(<<ConcreteMethod(getSubscriptionMethodDefinition(cfg, opNode), "client",
                               sCreateSubscriptionStream),
                ConcreteMethod(getSubscriptionMethodDefinitionWithHandler(cfg, opNode),
                               "client", sCreateSubscriptionStream)>>)
    ELSE Throw("Unexpected operation type", opNode.operation)

\* One buffer: the texts returned for the definitions, one entry per definition, or
\* the first error thrown while they are produced
assemble(results) ==
    IF \E i \in 1..Len(results) : Failed(results[i])
      THEN results[CHOOSE i \in 1..Len(results) :
                      /\ Failed(results[i])
                      /\ \A j \in 1..(i - 1) : ~Failed(results[j])]
      ELSE Ok([i \in 1..Len(results) |-> results[i].items])

\* The buffers in the order the plugin fills them
pluginBuffers(cfg, docs) ==
    LET ops == allOperations(docs)
        frags == SelectSeq(docs, LAMBDA d : d.kind = "FragmentDefinition")
    IN  [inputDefinitions |->
            assemble([i \in 1..Len(allInputTypes) |->
                         InputObjectTypeDefinition(cfg, allInputTypes[i])]),
         fragmentDefinitions |->
            assemble([i \in 1..Len(frags) |-> getFragmentClass(frags[i])]),
         operationInterfaceMethods |->
            assemble([i \in 1..Len(ops) |-> getOperationInterfaceMethods(cfg, ops[i])]),
         operationDefinitions |->
            assemble([i \in 1..Len(ops) |-> getOperationConcreteMethod(cfg, ops[i])]),
         requestDefinitions |->
            assemble([i \in 1..Len(ops) |-> getRequestClass(ops[i])]),
         responseDefinitions |->
            assemble([i \in 1..Len(ops) |-> getResponseClass(ops[i])]),
         enumDefinitions |->
            assemble([i \in 1..Len(allEnumTypes) |-> getEnumDefinition(allEnumTypes[i])])]

BufferOrder ==
    <<"inputDefinitions", "fragmentDefinitions", "operationInterfaceMethods",
      "operationDefinitions", "requestDefinitions", "responseDefinitions",
      "enumDefinitions">>

\* config.operationsClassName: rawConfig.operationsClassName || 'GraphQLClient'
operationsClassName == <<"G","r","a","p","h","Q","L","C","l","i","e","n","t">>

InterfaceBlock(name, body) ==
    [k |-> "interface", json |-> <<>>, type |-> <<>>, name |-> name, body |-> body]

\* getHttpRequestClass: the transport-request subclass, '' without httpClientConfig
getHttpRequestClass(cfg) ==
    IF cfg.httpClientConfig = NoHttpClientConfig THEN <<>>
    ELSE <<ClassBlock(<<"G","r","a","p","h","Q","L","H","t","t","p","R","e","q","u","e","s","t","W","i","t","h","H","e","a","d","e","r","s">>, <<>>)>>

\* getHasErrorExtension: the error-presence helper
getHasErrorExtension == <<ClassBlock(<<"G","r","a","p","h","Q","L","R","e","s","p","o","n","s","e","E","x","t","e","n","s","i","o","n","s">>, <<>>)>>

\* Mutant of blockContent: the fragment declarations come before the response
\* declarations
blockContentFragmentsFirst(cfg, b) ==
    << <<InterfaceBlock(<<"I">> \o operationsClassName,
                        Flatten(b.operationInterfaceMethods.items))>>,
       <<ClassBlock(operationsClassName,
                    <<getClientDeclaration(cfg)>> \o Flatten(b.operationDefinitions.items))>>,
       Flatten(b.requestDefinitions.items),
       Flatten(b.fragmentDefinitions.items),
       Flatten(b.responseDefinitions.items),
       Flatten(b.inputDefinitions.items),
       Flatten(b.enumDefinitions.items),
       getHttpRequestClass(cfg),
       getHasErrorExtension >>

\* blockContent: the sections of the output, joined in this order (lines 104-126)
blockContent(cfg, b) ==
    << <<InterfaceBlock(<<"I">> \o operationsClassName,
                        Flatten(b.operationInterfaceMethods.items))>>,
       <<ClassBlock(operationsClassName,
                    <<getClientDeclaration(cfg)>> \o Flatten(b.operationDefinitions.items))>>,
       Flatten(b.requestDefinitions.items),
       Flatten(b.responseDefinitions.items),
       Flatten(b.fragmentDefinitions.items),
       Flatten(b.inputDefinitions.items),
       Flatten(b.enumDefinitions.items),
       getHttpRequestClass(cfg),
       getHasErrorExtension >>

\* plugin: the assembled buffers and the output joined from them, or the first error
\* in the order of assembly
plugin(cfg, docs) ==
    LET b == pluginBuffers(cfg, docs)
    IN  IF \E i \in 1..Len(BufferOrder) : Failed(b[BufferOrder[i]])
          THEN [status |-> "threw",
                error |-> b[BufferOrder[CHOOSE i \in 1..Len(BufferOrder) :
                                /\ Failed(b[BufferOrder[i]])
                                /\ \A j \in 1..(i - 1) : ~Failed(b[BufferOrder[j]])]]]
          ELSE [status |-> "returned",
                clientDeclaration |-> getClientDeclaration(cfg),
                inputDefinitions |-> b.inputDefinitions.items,
                fragmentDefinitions |-> b.fragmentDefinitions.items,
                operationInterfaceMethods |-> b.operationInterfaceMethods.items,
                operationDefinitions |-> b.operationDefinitions.items,
                requestDefinitions |-> b.requestDefinitions.items,
                responseDefinitions |-> b.responseDefinitions.items,
                enumDefinitions |-> b.enumDefinitions.items,
                blockContent |-> blockContent(cfg, b)]

oGetUser == <<"g","e","t","U","s","e","r">>
oUser == <<"u","s","e","r">>
DefinitionPool ==
    {OperationDefinition(opQuery, oGetUsers, <<>>, <<Field(fUsers, <<Field(fId, <<>>)>>)>>),
     OperationDefinition(opQuery, oGetUser, <<VariableDefinition(vId, NonNull(Named(nID)))>>,
                         <<Field(fUser, <<FragmentSpread(gUserFields)>>)>>),
     OperationDefinition(opMutation, oSaveUser, <<>>, <<Field(fUser, <<Field(fName, <<>>)>>)>>),
     OperationDefinition(opSubscription, oUsers, <<>>, <<Field(fUsers, <<Field(fId, <<>>)>>)>>),
     OperationDefinition(opQuery, oUsers, <<>>,
                         <<Field(fUser, <<Field(fAge, <<>>), FragmentSpread(gUserFields)>>)>>),
     OperationDefinition(opQuery, oUser, <<>>, <<Field(fAddress, <<Field(fId, <<>>)>>)>>),
     dUserFields, dUserDeep}
DocumentSets ==
    {ds \in UNION {[1..n -> DefinitionPool] : n \in 0..MaxDefinitions} :
        \A i, j \in 1..Len(ds) : i # j => ds[i] # ds[j]}

NotRun == [status |-> "not run"]

InitPlugin ==
    /\ config \in [httpClientConfig : {NoHttpClientConfig,
                                       HttpClientConfig(eProd, Absent, Absent),
                                       HttpClientConfig(Absent, eDev, pIsDev)},
                   typesafeOperation : BOOLEAN]
    /\ documents \in DocumentSets
    /\ buffers = NotRun
    /\ idleResolve /\ idleVisitor /\ idleClient /\ idleRequest

Plugin ==
    /\ buffers = NotRun
    /\ buffers' = plugin(config, documents)
    /\ UNCHANGED <<config, documents>>
    /\ UNCHANGED <<resolveVars, visitorVars, clientVars, requestVars>>

NextPlugin == Plugin

SpecPlugin == InitPlugin /\ [][NextPlugin]_vars

noDeclarations(buffer) == \A i \in 1..Len(buffer) : buffer[i] = <<>>

\* C5 (as claimed): with typesafeOperation off, the request, response, enum and input
\* buffers the plugin assembles hold no declaration, for every document set.
C5_BuffersEmptyWhenOff ==
    (buffers.status = "returned" /\ ~config.typesafeOperation) =>
        /\ noDeclarations(buffers.requestDefinitions)
        /\ noDeclarations(buffers.responseDefinitions)
        /\ noDeclarations(buffers.enumDefinitions)
        /\ noDeclarations(buffers.inputDefinitions)

\* What the flag does gate: the input buffer
InputBufferGated ==
    (buffers.status = "returned" /\ ~config.typesafeOperation) =>
        noDeclarations(buffers.inputDefinitions)

(***************************************************************************)
(* Properties of the plugin's output                                       *)
(***************************************************************************)
Returned == buffers.status = "returned"
operations == allOperations(documents)
fragmentDefinitionsOf(docs) == SelectSeq(docs, LAMBDA d : d.kind = "FragmentDefinition")
propertiesOf(items) == SelectSeq(items, LAMBDA d : d.k = "property")
classesOf(items) == SelectSeq(items, LAMBDA d : d.k = "class")

nestedFields(sels) ==
    SelectSeq(inlinedFields(sels), LAMBDA f : f.sels # <<>> /\ ~isSoleSpread(f))

\* The k-th property of a class body is tagged with the name of the k-th field put
\* into the body, and so on inside the class nested for each composite field
RECURSIVE TaggedWithFieldNames(_, _)
TaggedWithFieldNames(body, sels) ==
    /\ Len(propertiesOf(body)) = Len(inlinedFields(sels))
    /\ \A k \in 1..Len(inlinedFields(sels)) :
          propertiesOf(body)[k].json = inlinedFields(sels)[k].name
    /\ Len(classesOf(body)) = Len(nestedFields(sels))
    /\ \A k \in 1..Len(nestedFields(sels)) :
          TaggedWithFieldNames(classesOf(body)[k].body, nestedFields(sels)[k].sels)

\* C12: in the plugin's output every property is tagged with the original name: the
\* properties of response and fragment classes (leaf, sole-spread and composite
\* fields, at every depth) with the selected field's name, the properties of a request
\* class with the variable's name, the properties of an input class with the input
\* field's name.
C12_TagsAreOriginalNames ==
    Returned =>
        /\ \A i \in 1..Len(operations) :
              /\ TaggedWithFieldNames(buffers.responseDefinitions[i][1].body,
                                      operations[i].sels)
              /\ \A k \in 1..Len(operations[i].vars) :
                    buffers.requestDefinitions[i][1].body[k].json = operations[i].vars[k].name
        /\ \A i \in 1..Len(fragmentDefinitionsOf(documents)) :
              TaggedWithFieldNames(buffers.fragmentDefinitions[i][1].body,
                                   fragmentDefinitionsOf(documents)[i].sels)
        /\ config.typesafeOperation =>
              \A i \in 1..Len(allInputTypes) :
                  \A k \in 1..Len(allInputTypes[i].fields) :
                      buffers.inputDefinitions[i][1].body[k].json
                          = allInputTypes[i].fields[k][1]

\* C12 witness: the output for `query getUser($id: ID!) { user { ...UserFields } }`
\* with typed operations on: the request property Id is tagged "id", the sole-spread
\* property UserFields is tagged "user", the input property Role is tagged "role"
C12_Witness ==
    /\ Returned
    /\ config.typesafeOperation
    /\ Len(operations) = 1 /\ operations[1].name = oGetUser
    /\ buffers.requestDefinitions[1][1].body[1].json = vId
    /\ buffers.requestDefinitions[1][1].body[1].name = <<"I","d">>
    /\ buffers.responseDefinitions[1][1].body[1].json = fUser
    /\ buffers.responseDefinitions[1][1].body[1].name = <<"U","s","e","r","F","i","e","l","d","s">>
    /\ buffers.inputDefinitions[1][1].body[2].json = fRole
    /\ buffers.inputDefinitions[1][1].body[2].name = <<"R","o","l","e">>


\* The names of the declarations of the output, top level, in output order
declarationNames(sections) ==
    LET all == Flatten(sections) IN [i \in 1..Len(all) |-> all[i].name]
namesOf(defs) == [i \in 1..Len(defs) |-> convertName(defs[i].name)]
operationsWithVariables == SelectSeq(operations, LAMBDA o : o.vars # <<>>)
responseName(o) ==
    LET n == convertName(o.name) \o <<"P","a","y","l","o","a","d">>
    IN  IF Len(n) >= 3 /\ SubSeq(n, 1, 3) = <<"G","e","t">> THEN SubSeq(n, 4, Len(n)) ELSE n

\* C13: the output is, in this order: the client interface, the client class, the
\* request classes of the operations that declare variables, the response classes of
\* the operations, the fragment classes, the input classes (typed operations on), the
\* enums, the transport-request subclass exactly when httpClientConfig is present, the
\* error-presence helper; operations, fragments, inputs and enums each in the order
\* of their definitions.
C13_SectionOrder ==
    Returned =>
        /\ Len(buffers.blockContent) = 9
        /\ declarationNames(buffers.blockContent) =
              << <<"I">> \o <<"G","r","a","p","h","Q","L","C","l","i","e","n","t">>, <<"G","r","a","p","h","Q","L","C","l","i","e","n","t">> >>
              \o [i \in 1..Len(operationsWithVariables) |->
                     convertName(operationsWithVariables[i].name) \o <<"R","e","q","u","e","s","t">>]
              \o [i \in 1..Len(operations) |-> responseName(operations[i])]
              \o namesOf(fragmentDefinitionsOf(documents))
              \o (IF config.typesafeOperation THEN namesOf(allInputTypes) ELSE <<>>)
              \o namesOf(allEnumTypes)
              \o (IF config.httpClientConfig # NoHttpClientConfig
                    THEN <<<<"G","r","a","p","h","Q","L","H","t","t","p","R","e","q","u","e","s","t","W","i","t","h","H","e","a","d","e","r","s">>>> ELSE <<>>)
              \o <<<<"G","r","a","p","h","Q","L","R","e","s","p","o","n","s","e","E","x","t","e","n","s","i","o","n","s">>>>
        /\ (buffers.blockContent[8] # <<>>) = (config.httpClientConfig # NoHttpClientConfig)

\* C13 witness: the output for the documents <<fragment UserFields, query getUser>>
\* with endpoint configuration and typed operations: nine declarations, the request
\* and response classes of getUser before the fragment class that precedes it in
\* the documents
C13_Witness ==
    /\ Returned
    /\ config.typesafeOperation /\ config.httpClientConfig # NoHttpClientConfig
    /\ Len(documents) = 2 /\ documents[1] = dUserFields /\ documents[2].name = oGetUser
    /\ declarationNames(buffers.blockContent) =
          << <<"I">> \o <<"G","r","a","p","h","Q","L","C","l","i","e","n","t">>, <<"G","r","a","p","h","Q","L","C","l","i","e","n","t">>, <<"G","e","t","U","s","e","r","R","e","q","u","e","s","t">>, <<"U","s","e","r","P","a","y","l","o","a","d">>,
             <<"U","s","e","r","F","i","e","l","d","s">>, <<"U","s","e","r","F","i","l","t","e","r">>, <<"U","s","e","r","_","R","o","l","e">>, <<"G","r","a","p","h","Q","L","H","t","t","p","R","e","q","u","e","s","t","W","i","t","h","H","e","a","d","e","r","s">>,
             <<"G","r","a","p","h","Q","L","R","e","s","p","o","n","s","e","E","x","t","e","n","s","i","o","n","s">> >>


\* The methods of the client class
concreteMethods == Flatten(buffers.operationDefinitions)
inSequence(x, seq) == \E i \in 1..Len(seq) : seq[i] = x

\* C16: in the output of every run, each method of the client class that calls
\* `client.Send...Async` or `client.CreateSubscriptionStream` has `client` in scope:
\* it takes the `client` parameter, or the client class declares the static `client`
\* property.
C16_ClientInScope ==
    Returned =>
        \A i \in 1..Len(concreteMethods) :
            \A c \in 1..Len(concreteMethods[i].body) :
                concreteMethods[i].body[c].receiver = "client"
                    => \/ inSequence("client", concreteMethods[i].parameters)
                       \/ buffers.clientDeclaration # "none"

\* The response classes of the output, one per operation, in order
responseClasses == Flatten(buffers.responseDefinitions)

\* C17: in the output of every run, two operations with different converted names
\* have response classes with different names.
C17_ResponseNamesDistinct ==
    Returned =>
        \A i, j \in 1..Len(operations) :
            convertName(operations[i].name) # convertName(operations[j].name)
                => responseClasses[i].name # responseClasses[j].name

(***************************************************************************)
(* Properties of the request class                                         *)
(***************************************************************************)
requestClass == result.items[1]
requestConstructor == requestClass.body[Len(node.vars) + 1]
parameterNames == {requestConstructor.params[i].name : i \in 1..Len(node.vars)}

\* The text of the request class: nothing for zero variables; else one class named
\* after the operation with one property per variable, in order, tagged with the
\* variable's name, and one constructor whose i-th parameter has the i-th property's
\* type and whose i-th statement reads `<i-th property name> = <i-th parameter name>;`
RequestClassText ==
    called = "getRequestClass" =>
        IF Len(node.vars) = 0 THEN result = Ok(<<>>)
        ELSE /\ ~Failed(result)
             /\ Len(result.items) = 1
             /\ requestClass.k = "class"
             /\ requestClass.name = convertName(node.name) \o <<"R","e","q","u","e","s","t">>
             /\ Len(requestClass.body) = Len(node.vars) + 1
             /\ requestConstructor.k = "constructor"
             /\ Len(requestConstructor.params) = Len(node.vars)
             /\ Len(requestConstructor.assigns) = Len(node.vars)
             /\ \A i \in 1..Len(node.vars) :
                   /\ requestClass.body[i].k = "property"
                   /\ requestClass.body[i].json = node.vars[i].name
                   /\ requestConstructor.params[i].type = requestClass.body[i].type
                   /\ requestConstructor.assigns[i].source = requestConstructor.params[i].name
                   /\ requestConstructor.assigns[i].target = requestClass.body[i].name

\* C3 (as claimed): no text for zero variables; for n >= 1 variables one class with n
\* properties and one constructor with n parameters in declaration order, the i-th
\* parameter typed as the i-th property, and the constructor body assigns the i-th
\* parameter to the i-th property.  Inside the constructor a name denotes the
\* parameter of that name when there is one, so a statement assigns to the property
\* only if its left-hand side is not also a parameter's name.
C3_ConstructorAssignsProperties ==
    /\ RequestClassText
    /\ (called = "getRequestClass" /\ Len(node.vars) > 0) =>
          \A i \in 1..Len(node.vars) :
              requestConstructor.assigns[i].target \notin parameterNames

====
